---- MODULE Spec2Model ----
(***************************************************************************)
(* EventsService (src/src/events.service.ts): an optional RabbitMQ facade. *)
(* The service caches one connection/channel pair, dials lazily through    *)
(* ensureConnection, and tears the pair down in disconnect.  Every `await` *)
(* on the broker client is a suspension point, so an invocation of a       *)
(* method is a call record that advances one broker completion at a time;  *)
(* the code between two awaits is one atomic step.  The broker client      *)
(* (amqplib) is the environment: every dial, channel open, prefetch, send, *)
(* declaration and close may succeed or fail, and the broker may close an  *)
(* open connection at any time.  An await that needs no broker reply (the  *)
(* cached path of ensureConnection) is not a suspension point here: the    *)
(* operation runs on to its channel call in the step that invokes it.      *)
(* onModuleInit is the startup hook, invoked at most once; the other       *)
(* methods may be invoked in any order, up to MaxOps times.                *)
(* Spec is the service with every method; SpecRace lets one more           *)
(* invocation overlap the sends and the startup hook; SpecConsume adds the *)
(* deliveries of a message to the callback registered by consume;          *)
(* SpecOptions is the publish-options expression of the two send methods.  *)
(***************************************************************************)
EXTENDS Integers, FiniteSets, Sequences, TLC

\* ---------------------------------------------------------------- bounds
MaxCalls == 1   \* invocations that may be in flight at once
MaxDials == 2   \* connect() attempts over one run
MaxOps == 2     \* invocations over one run, after the startup hook
MaxDeliveries == 2  \* times the broker delivers the message to a consumer

\* ------------------------------------------------------------- constants
Null == 0       \* `null` of connection / channel (ids start at 1)

Slots == 1..MaxCalls
\* The slots of the runs that race one more invocation against those.
AllSlots == 1..(MaxCalls + 1)
Ids == 1..MaxDials

\* EventsConfig values handed to the constructor: none, a profile without
\* prefetch, a profile with a (truthy) prefetch.
Configs ==
  { [rabbitmq |-> FALSE, prefetch |-> FALSE],
    [rabbitmq |-> TRUE,  prefetch |-> FALSE],
    [rabbitmq |-> TRUE,  prefetch |-> TRUE] }

\* The explicit operations, which all begin with `await ensureConnection()`.
ExplicitOps == {"sendToQueue", "publishToExchange", "createQueue", "createExchange", "consume"}
\* Every operation that reaches ensureConnection (emitEvent through sendToQueue).
ChannelOps == ExplicitOps \cup {"emitEvent"}

VARIABLES
  config,           \* this.config (presence of the rabbitmq profile, prefetch)
  rabbitMQEnabled,  \* this.rabbitMQEnabled
  connection,       \* this.connection: Null or a connection id
  channel,          \* this.channel: Null or a channel id
  broker,           \* the broker client's side: what is open, set up, closed
  dialAttempts,     \* number of connect() calls made so far
  brokerIO,         \* some broker-client method has been called
  calls,            \* the invocations in flight, one record per slot
  started,          \* number of invocations made so far (onModuleInit apart)
  initialized,      \* the startup hook onModuleInit has been invoked
  last,             \* the invocation the latest step settled, if it settled one
  published,        \* the publish options most recently built for a message
  delivery          \* the message on the consumed queue and its current delivery

vars == <<config, rabbitMQEnabled, connection, channel, broker, dialAttempts, brokerIO, calls, started, initialized, last, published, delivery>>
service == <<config, rabbitMQEnabled, connection, channel>>

\* A connection and the only channel the service ever opens on it share an id.
Broker0 ==
  [ opened       |-> 0,    \* connections ever opened (the last id handed out)
    connOpen     |-> {},   \* connections open at the broker
    chanOpen     |-> {},   \* channels open at the broker
    prefetched   |-> {},   \* channels on which prefetch was applied
    observers    |-> {},   \* connections with the error/close observers registered
    consumers    |-> {},   \* open channels on which a consume callback is registered
    closeRequested |-> {}, \* connections on which the service called close()
    closeEmitted |-> {} ]  \* connections that emitted 'close' to the observers

\* An invocation: which method, where it is suspended, and what it has seen.
Call0 ==
  [ op            |-> "none",
    pc            |-> "idle",  \* the broker call it awaits
    target        |-> Null,    \* the connection / channel that call was made on
    dials         |-> 0,       \* connect() calls made by this invocation
    closes        |-> <<>>,    \* close() calls made by this invocation, in order
    overtaken     |-> FALSE,   \* a send started after it has reached the channel first
    fault         |-> "none",  \* the error thrown inside it
    result        |-> "pending", \* how its promise settled: "ok" or the error
    ret           |-> "void" ] \* the value it resolved with

\* MessageOptions (interfaces/rabbitmq.interface.ts lines 12-20) as the caller
\* passes them: each key is absent from the object ("absent"), present with
\* the value undefined, or present with a value.
OptionKeys == {"persistent", "priority", "expiration"}
OptionObjects ==
  { o \in [OptionKeys -> {"absent", "undefined", "true", "false", "0", "9", "60000"}] :
      /\ o["persistent"] \in {"absent", "undefined", "true", "false"}
      /\ o["priority"] \in {"absent", "0", "9"}
      /\ o["expiration"] \in {"absent", "60000"} }
\* An object with no keys.
EmptyObject == [k \in OptionKeys |-> "absent"]
\* The `options?` argument: not passed, or an object.
NoOptions == [given |-> FALSE, own |-> EmptyObject]
OptionsArgs == {NoOptions} \cup {[given |-> TRUE, own |-> o] : o \in OptionObjects}

\* No publish options built yet.
Published0 == [method |-> "none", options |-> NoOptions, publishOptions |-> EmptyObject]

\* The message on the consumed queue and its current delivery to the consume
\* callback; nothing published to the queue yet.
Delivery0 ==
  [ state         |-> "none",  \* "ready" on the queue, "unacked", "acked", "dropped"
    decodes       |-> TRUE,    \* JSON.parse of its content succeeds
    deliveries    |-> 0,       \* times it was delivered
    chan          |-> Null,    \* the channel of the current delivery
    invoked       |-> FALSE,   \* the registered handler was invoked for it
    holding       |-> FALSE,   \* the handler has returned and may still call ack / nack
    asked         |-> "none",  \* the callable the handler called: ack, nack(true), nack(false)
    handlerFault  |-> "none",  \* what that call met
    live          |-> FALSE,   \* the delivery's channel was open when that call was made
    serviceReject |-> "none",  \* the catch block's reject: "issued" or what it met
    settles       |-> 0 ]      \* ack / nack / reject calls the broker received for it

\* Mutant of constructorEnabled: `!!this.config`, which is always true.
constructorEnabledAlways(cfg) == TRUE

\* constructor (lines 24-27)
constructorEnabled(cfg) == cfg.rabbitmq

Init ==
  /\ config \in Configs
  /\ rabbitMQEnabled = constructorEnabled(config)
  /\ connection = Null
  /\ channel = Null
  /\ broker = Broker0
  /\ dialAttempts = 0
  /\ brokerIO = FALSE
  /\ calls = [s \in AllSlots |-> Call0]
  /\ started = 0
  /\ initialized = FALSE
  /\ last = Call0
  /\ published = Published0
  /\ delivery = Delivery0

\* ------------------------------------------------------------ queries
isConnected == rabbitMQEnabled /\ connection # Null /\ channel # Null
isRabbitMQEnabled == rabbitMQEnabled

\* -------------------------------------------------- invocation plumbing
Idle(s) == calls[s].pc = "idle"
NoneInFlight == \A s \in AllSlots : Idle(s)
\* The invocations in flight fill the lowest slots in the order they were
\* started: a new invocation takes the lowest free slot, and when the
\* invocation in slot s settles those started after it move down one slot.
FreeSlot(s) == Idle(s) /\ \A t \in AllSlots : t < s => ~Idle(t)
\* An invocation is made in slot s.
Invoked(s) ==
  /\ FreeSlot(s)
  /\ started < MaxOps
  /\ started' = started + 1
  /\ UNCHANGED initialized

\* The record of a fresh invocation of `op`.
NewCall(op) == [Call0 EXCEPT !.op = op]

\* Mutant of emitEventCatch: the catch block rethrows.
emitEventCatchRethrows(err) == err

\* emitEvent's catch block (lines 97-100): the error is logged, not rethrown.
emitEventCatch(err) == "ok"
\* disconnect's catch block (lines 76-78): the error is logged, not rethrown.
disconnectCatch(err) == "ok"

\* What the caller of `op` sees when `err` was thrown inside it.
Outcome(op, err) ==
  IF err = "ok" THEN "ok"
  ELSE IF op = "emitEvent" THEN emitEventCatch(err)
  ELSE IF op = "onModuleDestroy" THEN disconnectCatch(err)
  ELSE err

\* The invocation in slot s settles: c is its final record, err what was thrown.
Settled(c, err, ret) ==
  [c EXCEPT !.pc = "idle", !.target = Null,
            !.fault = IF err = "ok" THEN "none" ELSE err,
            !.result = Outcome(c.op, err),
            !.ret = IF Outcome(c.op, err) = "ok" THEN ret ELSE "void"]
Without(s, cs) ==
  [t \in AllSlots |-> IF t < s THEN cs[t]
                      ELSE IF t + 1 \in AllSlots THEN cs[t + 1]
                      ELSE Call0]
Settle(s, c, err, ret) ==
  /\ calls' = Without(s, calls)
  /\ last' = Settled(c, err, ret)
  /\ UNCHANGED <<published, delivery>>

\* The operations that hand a message to the channel.
SendOps == {"sendToQueue", "publishToExchange", "emitEvent"}
\* The send in slot s has handed its message to the channel and settles;
\* every send started before it and still in flight has been overtaken.
Handed(s, c, ret) ==
  /\ calls' = Without(s, [t \in AllSlots |->
                 IF t < s /\ calls[t].op \in SendOps
                   THEN [calls[t] EXCEPT !.overtaken = TRUE]
                   ELSE calls[t]])
  /\ last' = Settled(c, "ok", ret)
  /\ UNCHANGED <<published, delivery>>

\* The invocation in slot s suspends on a broker call `pc` made on `target`.
Suspend(s, c, pc, target) ==
  /\ calls' = [calls EXCEPT ![s] = [c EXCEPT !.pc = pc, !.target = target]]
  /\ last' = Call0
  /\ UNCHANGED <<published, delivery>>

\* ------------------------------------------------- the broker client
\* this.connection.on('error') / on('close') (lines 50-56): both observers
\* only log; the cached pair <<connection, channel>> is what it was.
closeObserver(conn, chan) == <<conn, chan>>

\* The broker (or the network) closes connection k, with or without an
\* 'error' first; its channel goes with it.
brokerCloses(k) ==
  /\ k \in broker.connOpen
  /\ broker' = [broker EXCEPT
        !.connOpen = @ \ {k},
        !.chanOpen = @ \ {k},
        !.consumers = @ \ {k},
        !.closeEmitted = IF k \in broker.observers THEN @ \cup {k} ELSE @]
  /\ connection' = closeObserver(connection, channel)[1]
  /\ channel' = closeObserver(connection, channel)[2]
  /\ last' = Call0
  /\ UNCHANGED <<config, rabbitMQEnabled, dialAttempts, brokerIO, calls, started, initialized, published, delivery>>

\* --------------------------------------------------- publish options
\* `options?.key`: undefined when no options were passed or the key is absent.
optionalGet(o, k) ==
  IF ~o.given THEN "undefined"
  ELSE IF o.own[k] = "absent" THEN "undefined"
  ELSE o.own[k]
\* `v ?? d`
nullish(v, d) == IF v = "undefined" THEN d ELSE v
\* `{ ...base, ...o }`: every own key of o, a key whose value is undefined
\* included, replaces the key of base.
spread(base, o) ==
  [k \in OptionKeys |-> IF ~o.given THEN base[k]
                        ELSE IF o.own[k] = "absent" THEN base[k]
                        ELSE o.own[k]]
\* `{ persistent: options?.persistent ?? true, ...options }` (lines 110-113
\* and 133-136)
publishOptions(o) ==
  spread([k \in OptionKeys |->
            IF k = "persistent" THEN nullish(optionalGet(o, "persistent"), "true")
            ELSE "absent"], o)

\* The publish options of a sendToQueue / publishToExchange called with the
\* options o are built (lines 110-113, 133-136).
buildPublishOptions(method, o) ==
  /\ published' = [method |-> method, options |-> o,
                   publishOptions |-> publishOptions(o)]
  /\ UNCHANGED <<config, rabbitMQEnabled, connection, channel, broker, dialAttempts,
                 brokerIO, calls, started, initialized, last, delivery>>

\* ------------------------------------------ the body after ensureConnection
\* What each operation does once ensureConnection has returned.  ch is
\* this.channel and brk the broker at that moment, io whether the broker client was called so far;
\* out is the payload / broker outcome of a send ("sent": the channel method
\* returned its boolean).
SendOuts == {"sent", "throw", "badPayload"}

\* sendToQueue / publishToExchange (lines 108-119, 131-142); kind is the
\* channel method called.  JSON.stringify runs first, then this.channel!.
Send(s, c, io, ch, brk, out, kind) ==
  IF out = "badPayload"
    THEN Settle(s, c, "E_stringify", "void") /\ brokerIO' = io
  ELSE IF ch = Null
    THEN Settle(s, c, "TypeError", "void") /\ brokerIO' = io
  ELSE /\ brokerIO' = TRUE
       /\ IF ch \notin brk.chanOpen \/ out = "throw"
            THEN Settle(s, c, "E_" \o kind, "void")
            ELSE Handed(s, c, IF c.op = "emitEvent" THEN "void" ELSE "boolean")

\* createQueue / createExchange / consume (lines 154, 166, 182): the channel
\* method is awaited; a closed channel throws at once.
Declare(s, c, io, ch, brk, kind) ==
  IF ch = Null
    THEN Settle(s, c, "TypeError", "void") /\ brokerIO' = io
  ELSE /\ brokerIO' = TRUE
       /\ IF ch \notin brk.chanOpen
            THEN Settle(s, c, "E_" \o kind, "void")
            ELSE Suspend(s, c, kind, ch)

Body(s, c, io, ch, brk, out) ==
  CASE c.op = "onModuleInit" -> Settle(s, c, "ok", "void") /\ brokerIO' = io
    [] c.op \in {"sendToQueue", "emitEvent"} -> Send(s, c, io, ch, brk, out, "sendToQueue")
    [] c.op = "publishToExchange" -> Send(s, c, io, ch, brk, out, "publish")
    [] c.op = "createQueue" -> Declare(s, c, io, ch, brk, "assertQueue")
    [] c.op = "createExchange" -> Declare(s, c, io, ch, brk, "assertExchange")
    [] c.op = "consume" -> Declare(s, c, io, ch, brk, "consume")

\* ------------------------------------------------- connectToRabbitMQ
\* connectToRabbitMQ up to its first await (lines 39-43): without a profile it
\* returns at once, otherwise it calls connect(url).
connectToRabbitMQ(s, c, out) ==
  IF ~config.rabbitmq
    THEN /\ Body(s, c, brokerIO, channel, broker, out)
         /\ UNCHANGED <<service, broker, dialAttempts>>
    ELSE /\ dialAttempts < MaxDials
         /\ dialAttempts' = dialAttempts + 1
         /\ brokerIO' = TRUE
         /\ Suspend(s, [c EXCEPT !.dials = @ + 1], "connect", Null)
         /\ UNCHANGED <<service, broker>>

\* Lines 50-58: the observers are registered on this.connection as it is now;
\* then the caller's body runs.  A null this.connection throws a TypeError,
\* which the catch block (lines 59-62) rethrows.
registerObservers(s, c, io, conn, ch, brk, out) ==
  IF conn = Null
    THEN /\ Settle(s, c, "TypeError", "void")
         /\ brokerIO' = io
         /\ broker' = brk
    ELSE /\ broker' = [brk EXCEPT !.observers = @ \cup {conn}]
         /\ Body(s, c, io, ch, [brk EXCEPT !.observers = @ \cup {conn}], out)

\* Mutant of connectResolves: a failed dial is retried while attempts remain.
connectResolvesRetrying(s, ok) ==
  /\ calls[s].pc = "connect"
  /\ UNCHANGED <<started, initialized>>
  /\ IF ok
       THEN LET k == broker.opened + 1 IN
            /\ broker' = [broker EXCEPT !.opened = k, !.connOpen = @ \cup {k}]
            /\ connection' = k
            /\ brokerIO' = TRUE
            /\ Suspend(s, calls[s], "createChannel", k)
            /\ UNCHANGED <<config, rabbitMQEnabled, channel, dialAttempts>>
       ELSE IF dialAttempts < MaxDials
         THEN /\ dialAttempts' = dialAttempts + 1
              /\ Suspend(s, [calls[s] EXCEPT !.dials = @ + 1], "connect", Null)
              /\ UNCHANGED <<service, broker, brokerIO>>
         ELSE /\ Settle(s, calls[s], "E_connect", "void")
              /\ UNCHANGED <<service, broker, dialAttempts, brokerIO>>

\* connect(url) settles (line 43); on success createChannel is called on the
\* new connection (line 44).
connectResolves(s, ok) ==
  /\ calls[s].pc = "connect"
  /\ UNCHANGED <<started, initialized>>
  /\ IF ok
       THEN LET k == broker.opened + 1 IN
            /\ broker' = [broker EXCEPT !.opened = k, !.connOpen = @ \cup {k}]
            /\ connection' = k
            /\ brokerIO' = TRUE
            /\ Suspend(s, calls[s], "createChannel", k)
            /\ UNCHANGED <<config, rabbitMQEnabled, channel, dialAttempts>>
       ELSE /\ Settle(s, calls[s], "E_connect", "void")
            /\ UNCHANGED <<service, broker, dialAttempts, brokerIO>>

\* createChannel() settles (line 44); on success prefetch is applied when
\* configured (lines 46-48), else the observers are registered.
createChannelResolves(s, ok, out) ==
  /\ calls[s].pc = "createChannel"
  /\ UNCHANGED <<started, initialized>>
  /\ LET k == calls[s].target IN
     IF ok
       THEN /\ k \in broker.connOpen
            /\ channel' = k
            /\ LET brk == [broker EXCEPT !.chanOpen = @ \cup {k}] IN
               IF config.prefetch
                 THEN /\ broker' = brk
                      /\ brokerIO' = TRUE
                      /\ Suspend(s, calls[s], "prefetch", k)
                 ELSE registerObservers(s, calls[s], brokerIO, connection, k, brk, out)
            /\ UNCHANGED <<config, rabbitMQEnabled, connection, dialAttempts>>
       ELSE /\ Settle(s, calls[s], "E_createChannel", "void")
            /\ UNCHANGED <<service, broker, dialAttempts, brokerIO>>

\* channel.prefetch() settles (line 47).
prefetchResolves(s, ok, out) ==
  /\ calls[s].pc = "prefetch"
  /\ UNCHANGED <<started, initialized>>
  /\ LET k == calls[s].target IN
     IF ok
       THEN /\ k \in broker.chanOpen
            /\ registerObservers(s, calls[s], brokerIO, connection, channel,
                                 [broker EXCEPT !.prefetched = @ \cup {k}], out)
            /\ UNCHANGED <<service, dialAttempts>>
       ELSE /\ Settle(s, calls[s], "E_prefetch", "void")
            /\ UNCHANGED <<service, broker, dialAttempts, brokerIO>>

\* ------------------------------------------------- ensureConnection
\* Mutant of ensureConnectionThrows: the not-configured check is missing.
ensureConnectionNeverThrows == FALSE

\* Line 82: without a profile ensureConnection throws.
ensureConnectionThrows == ~rabbitMQEnabled
\* Line 85: it connects when either half of the pair is absent.
ensureConnectionDials == connection = Null \/ channel = Null

\* An operation that begins with `await this.ensureConnection()`.
ensureConnection(s, c, out) ==
  IF ensureConnectionThrows
    THEN /\ Settle(s, c, "NotConfigured", "void")
         /\ UNCHANGED <<service, broker, dialAttempts, brokerIO>>
  ELSE IF ensureConnectionDials
    THEN connectToRabbitMQ(s, c, out)
  ELSE /\ Body(s, c, brokerIO, channel, broker, out)
       /\ UNCHANGED <<service, broker, dialAttempts>>

\* The awaited assertQueue / assertExchange / consume settles.
declareResolves(s, ok) ==
  /\ calls[s].pc \in {"assertQueue", "assertExchange", "consume"}
  /\ UNCHANGED <<started, initialized>>
  /\ ok => calls[s].target \in broker.chanOpen
  /\ Settle(s, calls[s], IF ok THEN "ok" ELSE "E_" \o calls[s].pc,
            IF calls[s].pc = "consume" THEN "consumerTag" ELSE "void")
  /\ broker' = IF ok /\ calls[s].pc = "consume"
                 THEN [broker EXCEPT !.consumers = @ \cup {calls[s].target}]
                 ELSE broker
  /\ UNCHANGED <<service, dialAttempts, brokerIO>>

\* ------------------------------------------------------- disconnect
\* Lines 71-75: connection.close() when a connection is cached.  conn is
\* this.connection and brk the broker at that moment.  close() on a
\* connection that is already closed throws, into the catch block.
closeConnection(s, c, conn, brk) ==
  IF conn = Null
    THEN /\ Settle(s, c, "ok", "void")
         /\ broker' = brk
         /\ brokerIO' = brokerIO
    ELSE /\ broker' = [brk EXCEPT !.closeRequested = @ \cup {conn}]
         /\ brokerIO' = TRUE
         /\ IF conn \in brk.connOpen
              THEN Suspend(s, [c EXCEPT !.closes = Append(@, "connection")], "closeConnection", conn)
              ELSE Settle(s, [c EXCEPT !.closes = Append(@, "connection")], "E_closeConnection", "void")

\* Mutant of disconnect: the connection is closed first, the channel never.
disconnectConnectionFirst(s, c) ==
  /\ closeConnection(s, c, connection, broker)
  /\ UNCHANGED <<service, dialAttempts>>

\* disconnect up to its first await (lines 65-68): channel.close() when a
\* channel is cached, else on to the connection.
disconnect(s, c) ==
  IF channel # Null
    THEN /\ broker' = broker
         /\ brokerIO' = TRUE
         /\ IF channel \in broker.chanOpen
              THEN Suspend(s, [c EXCEPT !.closes = Append(@, "channel")], "closeChannel", channel)
              ELSE Settle(s, [c EXCEPT !.closes = Append(@, "channel")], "E_closeChannel", "void")
         /\ UNCHANGED <<service, dialAttempts>>
    ELSE /\ closeConnection(s, c, connection, broker)
         /\ UNCHANGED <<service, dialAttempts>>

\* channel.close() settles (lines 68-69): on success this.channel is cleared
\* and the connection is closed next; on failure the catch block ends
\* disconnect with both fields as they are.
closeChannelResolves(s, ok) ==
  /\ calls[s].pc = "closeChannel"
  /\ UNCHANGED <<started, initialized>>
  /\ LET k == calls[s].target IN
     IF ok
       THEN /\ k \in broker.chanOpen
            /\ channel' = Null
            /\ closeConnection(s, calls[s], connection,
                               [broker EXCEPT !.chanOpen = @ \ {k},
                                              !.consumers = @ \ {k}])
            /\ UNCHANGED <<config, rabbitMQEnabled, connection, dialAttempts>>
       ELSE /\ Settle(s, calls[s], "E_closeChannel", "void")
            /\ UNCHANGED <<service, broker, dialAttempts, brokerIO>>

\* connection.close() settles (lines 72-73): on success this.connection is
\* cleared; the closed connection emits 'close' to its observers.
closeConnectionResolves(s, ok) ==
  /\ calls[s].pc = "closeConnection"
  /\ UNCHANGED <<started, initialized>>
  /\ LET k == calls[s].target IN
     IF ok
       THEN /\ k \in broker.connOpen
            /\ broker' = [broker EXCEPT
                  !.connOpen = @ \ {k},
                  !.chanOpen = @ \ {k},
                  !.consumers = @ \ {k},
                  !.closeEmitted = IF k \in broker.observers THEN @ \cup {k} ELSE @]
            /\ connection' = Null
            /\ Settle(s, calls[s], "ok", "void")
            /\ UNCHANGED <<config, rabbitMQEnabled, channel, dialAttempts, brokerIO>>
       ELSE /\ Settle(s, calls[s], "E_closeConnection", "void")
            /\ UNCHANGED <<service, broker, dialAttempts, brokerIO>>

\* ------------------------------------------------- the consume callback
\* A settlement `kind` ("ack", "nackRequeue", "reject") of the delivery d is
\* issued on ch, the value of this.channel at that moment (lines 192, 195,
\* 197, 203).  A null channel is a TypeError and a closed one throws; the
\* broker settles a delivery that is outstanding on that channel, and closes
\* the channel on a delivery tag it does not know there.
channelSettle(d, ch, brk, kind) ==
  IF ch = Null THEN [d |-> d, brk |-> brk, fault |-> "TypeError"]
  ELSE IF ch \notin brk.chanOpen THEN [d |-> d, brk |-> brk, fault |-> "E_closed"]
  ELSE IF ch # d.chan \/ d.state # "unacked"
    THEN [ d |-> [d EXCEPT !.settles = @ + 1],
           brk |-> [brk EXCEPT !.chanOpen = @ \ {ch}, !.consumers = @ \ {ch}],
           fault |-> IF ch # d.chan THEN "wrongChannel" ELSE "none" ]
  ELSE [ d |-> [d EXCEPT !.settles = @ + 1,
                         !.state = CASE kind = "ack" -> "acked"
                                     [] kind = "nackRequeue" -> "ready"
                                     [] kind = "reject" -> "dropped"],
         brk |-> brk,
         fault |-> "none" ]

\* `ack` (line 192) and `nack` (lines 193-199) as the handler calls them:
\* nack(true) is channel.nack(msg, false, true), nack(false) and nack() are
\* channel.reject(msg, false).
handlerSettle(d, ch, brk, asked) ==
  LET r == channelSettle(d, ch, brk,
             CASE asked = "ack" -> "ack"
               [] asked = "nackRequeue" -> "nackRequeue"
               [] asked = "nackDrop" -> "reject") IN
  [ d |-> [r.d EXCEPT !.asked = asked, !.handlerFault = r.fault,
                      !.live = d.chan \in brk.chanOpen],
    brk |-> r.brk,
    fault |-> r.fault ]

\* The catch block (lines 201-204): this.channel!.reject(msg, false).
catchReject(d, ch, brk) ==
  LET r == channelSettle(d, ch, brk, "reject") IN
  [ d |-> [r.d EXCEPT !.serviceReject = IF r.fault = "none" THEN "issued" ELSE r.fault],
    brk |-> r.brk ]

\* What the handler does before it returns: the callable it calls, if any,
\* and whether it then throws.
HandlerScripts == [sync : {"none", "ack", "nackRequeue", "nackDrop"}, throws : BOOLEAN]

\* A message is published to the consumed queue; `dec` is whether its
\* content is valid JSON.
publishArrives(dec) ==
  /\ delivery.state = "none"
  /\ delivery' = [delivery EXCEPT !.state = "ready", !.decodes = dec]
  /\ last' = Call0
  /\ UNCHANGED <<service, broker, dialAttempts, brokerIO, calls, started, initialized, published>>

\* The broker delivers the message on channel k and the callback given to
\* channel.consume runs (lines 182-206): decode, build the callables, invoke
\* the handler; whatever is thrown inside lands in the catch block.
deliver(k, script) ==
  /\ delivery.state = "ready"
  /\ delivery.deliveries < MaxDeliveries
  /\ k \in broker.consumers
  /\ k \in broker.chanOpen
  /\ LET d1 == [delivery EXCEPT !.state = "unacked", !.chan = k,
                                !.deliveries = @ + 1, !.invoked = FALSE,
                                !.holding = FALSE, !.asked = "none",
                                !.handlerFault = "none", !.live = FALSE,
                                !.serviceReject = "none",
                                !.settles = 0]
         d2 == [d1 EXCEPT !.invoked = TRUE]
         h == IF script.sync = "none"
                THEN [d |-> d2, brk |-> broker, fault |-> "none"]
                ELSE handlerSettle(d2, channel, broker, script.sync)
         r == IF ~d1.decodes THEN catchReject(d1, channel, broker)
              ELSE IF script.throws \/ h.fault \in {"TypeError", "E_closed"}
                THEN catchReject(h.d, channel, h.brk)
              ELSE [d |-> [h.d EXCEPT !.holding = script.sync = "none"], brk |-> h.brk]
     IN /\ delivery' = r.d
        /\ broker' = r.brk
  /\ last' = Call0
  /\ UNCHANGED <<service, dialAttempts, brokerIO, calls, started, initialized, published>>

\* The handler, having returned, calls ack / nack(true) / nack(false) later.
handlerCalls(asked) ==
  /\ delivery.holding
  /\ LET r == handlerSettle([delivery EXCEPT !.holding = FALSE], channel, broker, asked)
     IN /\ delivery' = r.d
        /\ broker' = r.brk
  /\ last' = Call0
  /\ UNCHANGED <<service, dialAttempts, brokerIO, calls, started, initialized, published>>

\* The broker puts a delivery back on the queue when its channel has closed
\* before it was settled.
brokerRequeues ==
  /\ delivery.state = "unacked"
  /\ delivery.chan \notin broker.chanOpen
  /\ delivery' = [delivery EXCEPT !.state = "ready", !.holding = FALSE]
  /\ last' = Call0
  /\ UNCHANGED <<service, broker, dialAttempts, brokerIO, calls, started, initialized, published>>

\* ------------------------------------------------------- the operations
\* Mutant of onModuleInit: the hook never dials, connecting is left to the
\* first operation.
onModuleInitLazy(s) ==
  /\ FreeSlot(s)
  /\ ~initialized
  /\ initialized' = TRUE
  /\ UNCHANGED started
  /\ Settle(s, NewCall("onModuleInit"), "ok", "void")
  /\ UNCHANGED <<service, broker, dialAttempts, brokerIO>>

\* onModuleInit (lines 29-33), the startup hook: the framework calls it once.
onModuleInit(s) ==
  /\ FreeSlot(s)
  /\ ~initialized
  /\ initialized' = TRUE
  /\ UNCHANGED started
  /\ IF rabbitMQEnabled /\ config.rabbitmq
       THEN connectToRabbitMQ(s, NewCall("onModuleInit"), "sent")
       ELSE /\ Settle(s, NewCall("onModuleInit"), "ok", "void")
            /\ UNCHANGED <<service, broker, dialAttempts, brokerIO>>

\* onModuleDestroy (lines 35-37)
onModuleDestroy(s) ==
  /\ Invoked(s)
  /\ disconnect(s, NewCall("onModuleDestroy"))

\* Mutant of emitEvent: it delegates to sendToQueue without the enabled check,
\* so the not-configured error reaches the caller.
emitEventUnguarded(s, out) ==
  /\ Invoked(s)
  /\ IF ensureConnectionThrows
       THEN /\ calls' = calls
            /\ last' = [NewCall("emitEvent") EXCEPT !.fault = "NotConfigured",
                                                     !.result = "NotConfigured"]
            /\ UNCHANGED <<service, broker, dialAttempts, brokerIO, published, delivery>>
       ELSE ensureConnection(s, NewCall("emitEvent"), out)

\* emitEvent (lines 91-102): sendToQueue inside try/catch when enabled.
emitEvent(s, out) ==
  /\ Invoked(s)
  /\ IF rabbitMQEnabled
       THEN ensureConnection(s, NewCall("emitEvent"), out)
       ELSE /\ Settle(s, NewCall("emitEvent"), "ok", "void")
            /\ UNCHANGED <<service, broker, dialAttempts, brokerIO>>

\* sendToQueue (lines 105-120)
sendToQueue(s, out) ==
  /\ Invoked(s)
  /\ ensureConnection(s, NewCall("sendToQueue"), out)

\* publishToExchange (lines 123-143)
publishToExchange(s, out) ==
  /\ Invoked(s)
  /\ ensureConnection(s, NewCall("publishToExchange"), out)

\* createQueue (lines 146-155)
createQueue(s) ==
  /\ Invoked(s)
  /\ ensureConnection(s, NewCall("createQueue"), "sent")

\* createExchange (lines 158-167)
createExchange(s) ==
  /\ Invoked(s)
  /\ ensureConnection(s, NewCall("createExchange"), "sent")

\* consume (lines 170-209), up to the consumer tag it returns
consume(s) ==
  /\ Invoked(s)
  /\ ensureConnection(s, NewCall("consume"), "sent")

\* isConnected() (lines 212-214) as a call: it only reads.
callIsConnected(s) ==
  /\ Invoked(s)
  /\ Settle(s, NewCall("isConnected"), "ok", IF isConnected THEN "true" ELSE "false")
  /\ UNCHANGED <<service, broker, dialAttempts, brokerIO>>

\* isRabbitMQEnabled() (lines 217-219) as a call: it only reads.
callIsRabbitMQEnabled(s) ==
  /\ Invoked(s)
  /\ Settle(s, NewCall("isRabbitMQEnabled"), "ok", IF isRabbitMQEnabled THEN "true" ELSE "false")
  /\ UNCHANGED <<service, broker, dialAttempts, brokerIO>>

Next ==
  \/ \E s \in Slots : onModuleInit(s)
  \/ \E s \in Slots : onModuleDestroy(s)
  \/ \E s \in Slots, out \in SendOuts : emitEvent(s, out)
  \/ \E s \in Slots, out \in SendOuts : sendToQueue(s, out)
  \/ \E s \in Slots, out \in SendOuts : publishToExchange(s, out)
  \/ \E s \in Slots : createQueue(s)
  \/ \E s \in Slots : createExchange(s)
  \/ \E s \in Slots : consume(s)
  \/ \E s \in Slots : callIsConnected(s)
  \/ \E s \in Slots : callIsRabbitMQEnabled(s)
  \/ \E s \in Slots, ok \in BOOLEAN : connectResolves(s, ok)
  \/ \E s \in Slots, ok \in BOOLEAN, out \in SendOuts : createChannelResolves(s, ok, out)
  \/ \E s \in Slots, ok \in BOOLEAN, out \in SendOuts : prefetchResolves(s, ok, out)
  \/ \E s \in Slots, ok \in BOOLEAN : declareResolves(s, ok)
  \/ \E s \in Slots, ok \in BOOLEAN : closeChannelResolves(s, ok)
  \/ \E s \in Slots, ok \in BOOLEAN : closeConnectionResolves(s, ok)
  \/ \E k \in Ids : brokerCloses(k)

Spec == Init /\ [][Next]_vars

\* The publish options alone, for every options argument of either method.
NextOptions ==
  \/ \E o \in OptionsArgs : buildPublishOptions("sendToQueue", o)
  \/ \E o \in OptionsArgs : buildPublishOptions("publish", o)

SpecOptions == Init /\ [][NextOptions]_vars

\* The service with a consumer: startup, consume and shutdown, the broker's
\* completions, and the deliveries of one message to the consume callback.
NextConsume ==
  \/ \E s \in Slots : onModuleInit(s)
  \/ \E s \in Slots : onModuleDestroy(s)
  \/ \E s \in Slots : consume(s)
  \/ \E s \in Slots, ok \in BOOLEAN : connectResolves(s, ok)
  \/ \E s \in Slots, ok \in BOOLEAN : createChannelResolves(s, ok, "sent")
  \/ \E s \in Slots, ok \in BOOLEAN : prefetchResolves(s, ok, "sent")
  \/ \E s \in Slots, ok \in BOOLEAN : declareResolves(s, ok)
  \/ \E s \in Slots, ok \in BOOLEAN : closeChannelResolves(s, ok)
  \/ \E s \in Slots, ok \in BOOLEAN : closeConnectionResolves(s, ok)
  \/ \E k \in Ids : brokerCloses(k)
  \/ \E dec \in BOOLEAN : publishArrives(dec)
  \/ \E k \in Ids, script \in HandlerScripts : deliver(k, script)
  \/ \E asked \in {"ack", "nackRequeue", "nackDrop"} : handlerCalls(asked)
  \/ brokerRequeues

SpecConsume == Init /\ [][NextConsume]_vars

\* Sends started without waiting for one another (and for the startup hook),
\* with the broker's completions of their dials.
NextRace ==
  \/ \E s \in AllSlots : onModuleInit(s)
  \/ \E s \in AllSlots, out \in SendOuts : sendToQueue(s, out)
  \/ \E s \in AllSlots, out \in SendOuts : publishToExchange(s, out)
  \/ \E s \in AllSlots, ok \in BOOLEAN : connectResolves(s, ok)
  \/ \E s \in AllSlots, ok \in BOOLEAN, out \in SendOuts : createChannelResolves(s, ok, out)
  \/ \E s \in AllSlots, ok \in BOOLEAN, out \in SendOuts : prefetchResolves(s, ok, out)

SpecRace == Init /\ [][NextRace]_vars

TypeOK ==
  /\ config \in Configs
  /\ rabbitMQEnabled \in BOOLEAN
  /\ connection \in {Null} \cup Ids
  /\ channel \in {Null} \cup Ids
  /\ dialAttempts \in 0..MaxDials
  /\ broker.opened \in 0..MaxDials
  /\ started \in 0..MaxOps
  /\ initialized \in BOOLEAN
  /\ published.options \in OptionsArgs

\* ------------------------------------------------------------- claims
ConnectFaults == {"E_connect", "E_createChannel"}
BrokerFaults == ConnectFaults \cup {"E_prefetch", "E_sendToQueue"}

\* The step invokes a method (the startup hook included).
Invokes == started' # started \/ initialized' # initialized
\* The record, after the step, of the invocation the step makes: in its slot
\* when it suspended, in `last` when it settled at once.
InvokedCall ==
  IF \E s \in AllSlots : Idle(s) /\ calls'[s].pc # "idle"
    THEN calls'[CHOOSE s \in AllSlots : Idle(s) /\ calls'[s].pc # "idle"]
    ELSE last'
\* A shutdown that found a channel cached has returned and nothing is in flight.
ShutdownReturned ==
  /\ NoneInFlight
  /\ last.op = "onModuleDestroy"
  /\ last.closes # <<>>
  /\ last.closes[1] = "channel"

\* C1: emitEvent never fails -- whatever the configuration, the cached pair
\* and the broker's outcomes, the promise of a settled emitEvent resolved.
C1_EmitEventNeverFails ==
  last.op = "emitEvent" => last.result = "ok"

\* An emitEvent that met a broker failure (dial, channel open, prefetch or
\* send) and resolved.
C1_Witness ==
  /\ last.op = "emitEvent"
  /\ last.fault \in BrokerFaults
  /\ last.result = "ok"

\* C2: with no broker configured no broker-client method is ever called, and
\* every emitEvent resolves.
C2_DisabledNoBrokerIO ==
  ~config.rabbitmq =>
    /\ ~brokerIO
    /\ dialAttempts = 0
    /\ broker = Broker0
    /\ last.op = "emitEvent" => last.result = "ok"

\* With no broker configured, an emitEvent resolved after the startup hook
\* and an earlier call.
C2_Witness ==
  /\ ~config.rabbitmq
  /\ initialized
  /\ started >= 2
  /\ last.op = "emitEvent"
  /\ last.result = "ok"

\* C3: isRabbitMQEnabled() is the presence of the profile given to the
\* constructor in every state, and isConnected() implies isRabbitMQEnabled().
C3_EnabledFixedAtConstruction ==
  /\ isRabbitMQEnabled = config.rabbitmq
  /\ isConnected => isRabbitMQEnabled

\* An enabled service whose only connection was opened and then torn down by
\* a shutdown: the flag is still what the constructor set.
C3_Witness ==
  /\ isRabbitMQEnabled
  /\ ~isConnected
  /\ broker.opened >= 1
  /\ broker.connOpen = {}
  /\ last.op = "onModuleDestroy"

\* C4: with no broker configured each explicit operation rejects with the
\* not-configured error, no broker-client method is called, and the cached
\* connection and channel stay absent.
C4_DisabledFailsFast ==
  ~config.rabbitmq =>
    /\ last.op \in ExplicitOps => last.result = "NotConfigured"
    /\ last.op \in ExplicitOps => last.dials = 0
    /\ ~brokerIO
    /\ connection = Null
    /\ channel = Null

\* A consume on a service without a profile was rejected as not configured.
C4_Witness ==
  /\ ~config.rabbitmq
  /\ last.op = "consume"
  /\ last.result = "NotConfigured"

\* C5: an operation whose dial or channel open failed made exactly one dial
\* attempt; an explicit operation rejected with that failure, emitEvent
\* resolved.  No invocation ever dials twice.
C5_FailedDialNotRetried ==
  /\ \A s \in Slots : calls[s].dials <= 1
  /\ (last.op \in ChannelOps /\ last.fault \in ConnectFaults) =>
       /\ last.dials = 1
       /\ last.op \in ExplicitOps => last.result = last.fault
       /\ last.op = "emitEvent" => last.result = "ok"

\* A sendToQueue was rejected with the error of its one dial.
C5_Witness ==
  /\ last.op = "sendToQueue"
  /\ last.fault = "E_connect"
  /\ last.result = "E_connect"
  /\ last.dials = 1

\* C6 (as claimed): an operation that needs a channel, invoked while the
\* cached connection has emitted 'close', dials the broker.
C6_RedialAfterClose ==
  [][ ( /\ Invokes
        /\ InvokedCall.op \in ChannelOps
        /\ connection # Null
        /\ connection \in broker.closeEmitted )
      => dialAttempts' = dialAttempts + 1 ]_vars

\* C7 (as claimed): an operation that needs a channel, invoked right after a
\* shutdown returned, dials the broker.
C7_RedialAfterShutdown ==
  [][ ( /\ Invokes
        /\ InvokedCall.op \in ChannelOps
        /\ rabbitMQEnabled
        /\ ShutdownReturned )
      => dialAttempts' = dialAttempts + 1 ]_vars

\* C8: onModuleDestroy always resolves, and a shutdown invoked with both the
\* channel and the connection cached calls the channel's close first.
C8_ShutdownNeverThrows ==
  [][ /\ last'.op = "onModuleDestroy" => last'.result = "ok"
      /\ ( /\ Invokes
           /\ InvokedCall.op = "onModuleDestroy"
           /\ connection # Null
           /\ channel # Null )
         => (InvokedCall.closes # <<>> /\ InvokedCall.closes[1] = "channel")
      /\ \A s \in Slots :
           calls'[s].closes \in {<<>>, <<"channel">>, <<"connection">>,
                                 <<"channel", "connection">>} ]_vars

\* A shutdown closed the channel, then the connection, met a failing
\* connection close, and resolved.
C8_Witness ==
  /\ last.op = "onModuleDestroy"
  /\ last.closes = <<"channel", "connection">>
  /\ last.fault = "E_closeConnection"
  /\ last.result = "ok"

\* The cached pair is open at the broker.
Live ==
  /\ connection # Null
  /\ channel # Null
  /\ connection \in broker.connOpen
  /\ channel \in broker.chanOpen

\* C9 (as claimed): isConnected() is true exactly when the broker is enabled
\* and the cached pair is live.
C9_ConnectedIffLive ==
  isConnected <=> (rabbitMQEnabled /\ Live)

\* C10 (as claimed): an onModuleDestroy invoked right after an earlier one
\* returned calls no close on the broker client.
C10_SecondShutdownNoClose ==
  [][ ( /\ Invokes
        /\ InvokedCall.op = "onModuleDestroy"
        /\ ShutdownReturned )
      => InvokedCall.closes = <<>> ]_vars

\* C11 (as claimed): the message handed to the broker client carries
\* persistent = true whenever the caller supplied no boolean persistent
\* (options absent, key absent, key present but undefined), and the caller's
\* boolean otherwise.
C11_PersistentDefaultsTrue ==
  published.method # "none" =>
    published.publishOptions["persistent"] =
      IF optionalGet(published.options, "persistent") \in {"true", "false"}
        THEN published.options.own["persistent"]
        ELSE "true"

\* C12 (as claimed): a delivery whose payload fails to decode is rejected
\* with requeue = false (the broker drops it) and the registered handler is
\* never invoked for it.
C12_UndecodableRejected ==
  (delivery.deliveries >= 1 /\ ~delivery.decodes) =>
    /\ delivery.state = "dropped"
    /\ ~delivery.invoked

\* C13 (as claimed): once the handler has called nack(true) on a delivery
\* whose channel is open, the message is back on the queue, ready to be
\* delivered again; once it has called nack(false) or nack(), the message is
\* dropped, so that it can never be delivered again.
C13_NackRequeuesOrDrops ==
  /\ (delivery.asked = "nackRequeue" /\ delivery.live) => delivery.state = "ready"
  /\ (delivery.asked = "nackDrop" /\ delivery.live) => delivery.state = "dropped"

\* C18 (as claimed): an ack / nack call made by the handler, at whatever
\* time, is issued on the channel the delivery arrived on: never on another
\* channel and never through an absent (null) channel.
C18_SettledOnOriginatingChannel ==
  delivery.handlerFault \notin {"TypeError", "wrongChannel"}

\* C19 (as claimed): for a delivery that decodes, whose handler calls at
\* most one of ack / nack, the broker receives at most one ack / nack /
\* reject, whether or not the handler throws afterwards.
C19_NoSettlementByService ==
  delivery.decodes => delivery.settles <= 1

\* C16 (as claimed): whenever ensureConnection has returned and the
\* operation has sent on the cached channel, that channel is fully set up:
\* the error/close observers are registered on its connection and prefetch
\* has been applied when it is configured.
C16_ChannelFullySetUp ==
  (last.op \in {"sendToQueue", "publishToExchange"} /\ last.fault = "none") =>
    /\ channel \in broker.observers
    /\ config.prefetch => channel \in broker.prefetched

\* C17 (as claimed): when onModuleDestroy has returned, close has been
\* requested on every connection the service ever opened.
C17_NoConnectionLeaked ==
  last.op = "onModuleDestroy" =>
    \A k \in 1..broker.opened : k \in broker.closeRequested

\* C20 (as claimed): the connection is established lazily -- onModuleInit
\* attempts no dial and so cannot fail, whatever the broker does.
C20_NoDialAtStartup ==
  last.op = "onModuleInit" => (last.dials = 0 /\ last.result = "ok")

\* C20 (amended): with a broker configured onModuleInit dials the broker
\* once, at startup, and rejects with whatever the dial, the channel open,
\* the prefetch or the observer registration threw; with no broker
\* configured it attempts no dial and resolves.
C20_DialsAtStartup ==
  last.op = "onModuleInit" =>
    /\ config.rabbitmq =>
         /\ last.dials = 1
         /\ last.result = IF last.fault = "none" THEN "ok" ELSE last.fault
    /\ ~config.rabbitmq => (last.dials = 0 /\ last.result = "ok")

\* The startup hook dialled an unreachable broker and rejected: startup failed.
C20_Witness ==
  /\ last.op = "onModuleInit"
  /\ last.dials = 1
  /\ last.fault = "E_connect"
  /\ last.result = "E_connect"

\* C14 (as claimed): the channel never receives a message before one whose
\* send was started earlier -- no send that reaches the channel has been
\* overtaken by a send started after it.
C14_SendsInIssueOrder ==
  (last.op \in SendOps /\ last.fault = "none") => ~last.overtaken

\* A connect attempt of some invocation is in flight.
DialInFlight ==
  \E t \in AllSlots : calls[t].pc \in {"connect", "createChannel", "prefetch"}

\* C15 (as claimed): an invocation dials only when no connection/channel
\* pair is cached and no dial is in flight.
C15_OneDialAtATime ==
  [][ (Invokes /\ dialAttempts' = dialAttempts + 1)
      => (~(connection # Null /\ channel # Null) /\ ~DialInFlight) ]_vars
====
